---- MODULE Spec2Model ----
(***************************************************************************)
(* Model of QueueStatusManager (backend/app/crud/queue_status.py): the     *)
(* persistent AMI session shared by get_queue_status and                   *)
(* perform_spy_action, the asyncio.Lock that serialises them, and the PBX  *)
(* at the other end of the socket.                                         *)
(*                                                                         *)
(* One action is one run of the code between two awaits.  An exception     *)
(* handler contains no await, so it is part of the step that raises.       *)
(***************************************************************************)
EXTENDS Integers, Sequences, FiniteSets, TLC

Procs == {1, 2}            \* concurrent callers (web requests)
MaxCalls == 2              \* calls started in one behaviour
MaxEvents == 2             \* event blocks the PBX sends in one exchange

None == 0                  \* Python None for reader / writer / lock owner

VARIABLES
    pc,            \* pc[p]: position of caller p
    kind,          \* kind[p]: "gqs" (get_queue_status) or "spy" (perform_spy_action)
    lock,          \* owner of self.lock, None when not locked
    waiters,       \* FIFO of callers suspended in lock.acquire()
    reader,        \* self.reader: socket id or None
    writer,        \* self.writer: socket id or None
    open,          \* sockets opened by this process and not closed by it
    socks,         \* number of sockets opened so far (ids are 1..socks)
    peer,          \* PBX end of the newest socket: "none", "live", "silent", "closed"
    authed,        \* the PBX accepted the Login on the newest socket
    rxn,           \* event blocks read in the current exchange
    queues_data,   \* queues_data[p]: queues gathered by caller p's poll
    channel_map,   \* channel_map of the poll in progress: channels by lower-cased name
    names,         \* db_names / ext_names of the poll in progress
    answers,       \* what the PBX answers to Status and QueueStatus
    unread,        \* the command whose response is not read to its end yet
    ret,           \* ret[p]: value returned by caller p's last call
    calls,         \* calls started
    logins,        \* history: Login commands written
    op,            \* history: what the current operation did so far
    lastWrite,     \* history: last command written to a socket
    fresh,         \* history: operations that found no writer or a failing probe
    prev,          \* history: how the last finished operation ended
    event,         \* correlator run: the QueueMember event handed to the loop body
    status_events, \* correlator run: the Status events read before it
    rows,          \* correlator run: the rows of the queue_members table
    member,        \* correlator run: the member the loop body appended for it
    polled,        \* sort run: the QueueMember events of one queue, as read
    listing,       \* sort run: the member list returned for them
    sent,          \* framing run: the blocks the PBX wrote, delimiter included
    stream,        \* framing run: the bytes not yet read
    got,           \* framing run: what the calls of _read_until_delimiter returned
    spy_args,      \* originate run: supervisor_ext, target_interface, mode
    action,        \* originate run: the text of the command written
    spy_resp,      \* originate run: the block the PBX answered
    result         \* originate run: the value returned

session == <<pc, kind, lock, waiters, reader, writer, open, socks, peer, authed,
             rxn, queues_data, channel_map, names, answers, unread, ret, calls,
             logins, op, lastWrite, fresh, prev>>

correlator == <<event, status_events, rows, member>>

sorter == <<polled, listing>>

framer == <<sent, stream, got>>

\* the runs of single functions, which the session never touches
originator == <<spy_args, action, spy_resp, result>>

detached == <<correlator, sorter, framer, originator>>

vars == <<session, detached>>

transport == <<reader, writer, open, socks, peer, authed>>

----------------------------------------------------------------------------
(* Python text.  A str is a TLA+ string; SubSeq and \o work on it.         *)

Digits == <<"0", "1", "2", "3", "4", "5", "6", "7", "8", "9">>

\* the characters that occur, in code-point order
Ascii == " ,-/0123456789:<>?@ABCDEFGHIJKLMNOPQRSTUVWXYZ_abcdefghijklmnopqrstuvwxyz"

Upper == "ABCDEFGHIJKLMNOPQRSTUVWXYZ"
Lower == "abcdefghijklmnopqrstuvwxyz"

Ch(s, i) == SubSeq(s, i, i)

\* s[i-1:j], clipped at the end of s as a Python slice is
Slice(s, i, j) == IF i > Len(s) THEN "" ELSE SubSeq(s, i, IF j > Len(s) THEN Len(s) ELSE j)

\* ord(c)
Ord(c) == CHOOSE i \in 1..Len(Ascii) : Ch(Ascii, i) = c

IsDigit(c) == \E i \in 1..Len(Digits) : Digits[i] = c

\* str.lower()
LowerCh(c) ==
    IF \E i \in 1..Len(Upper) : Ch(Upper, i) = c
    THEN Ch(Lower, CHOOSE i \in 1..Len(Upper) : Ch(Upper, i) = c)
    ELSE c

RECURSIVE ToLower(_)
ToLower(s) == IF s = "" THEN "" ELSE LowerCh(Ch(s, 1)) \o ToLower(SubSeq(s, 2, Len(s)))

\* needle in hay
Contains(hay, needle) ==
    \E i \in 0..(Len(hay) - Len(needle)) : SubSeq(hay, i + 1, i + Len(needle)) = needle

\* a < b on str: the first differing character decides, a proper prefix is less
RECURSIVE StrLess(_, _)
StrLess(a, b) ==
    IF b = "" THEN FALSE
    ELSE IF a = "" THEN TRUE
    ELSE IF Ch(a, 1) # Ch(b, 1) THEN Ord(Ch(a, 1)) < Ord(Ch(b, 1))
    ELSE StrLess(SubSeq(a, 2, Len(a)), SubSeq(b, 2, Len(b)))

\* the run of digits that starts at position i (\d+ matched at i), "" when
\* s[i] is not a digit
RECURSIVE DigitRun(_, _)
DigitRun(s, i) ==
    IF i > Len(s) \/ ~IsDigit(Ch(s, i)) THEN ""
    ELSE Ch(s, i) \o DigitRun(s, i + 1)

\* re.findall(r'\d+', s): digits[0] if digits else ""
FirstDigits(s) ==
    IF \E i \in 1..Len(s) : IsDigit(Ch(s, i))
    THEN DigitRun(s, CHOOSE i \in 1..Len(s) :
                        /\ IsDigit(Ch(s, i))
                        /\ \A j \in 1..(i - 1) : ~IsDigit(Ch(s, j)))
    ELSE ""

\* re.search(r'/(?:extension-)?(\d+)', s): group(1) of the leftmost match,
\* "" when there is none
SlashDigitsAt(s, i) ==
    IF Ch(s, i) # "/" THEN ""
    ELSE IF Slice(s, i + 1, i + 10) = "extension-" /\ DigitRun(s, i + 11) # ""
         THEN DigitRun(s, i + 11)
         ELSE DigitRun(s, i + 1)

SlashDigits(s) ==
    IF \E i \in 1..Len(s) : SlashDigitsAt(s, i) # ""
    THEN SlashDigitsAt(s, CHOOSE i \in 1..Len(s) :
                             /\ SlashDigitsAt(s, i) # ""
                             /\ \A j \in 1..(i - 1) : SlashDigitsAt(s, j) = "")
    ELSE ""

\* a or b, on str where None and "" are both false
Or(a, b) == IF a # "" THEN a ELSE b

\* str.strip(): white space removed at both ends
IsSpace(c) == c \in {" ", "\t", "\r", "\n"}

RECURSIVE Strip(_)
Strip(s) ==
    IF s = "" THEN ""
    ELSE IF IsSpace(Ch(s, 1)) THEN Strip(Slice(s, 2, Len(s)))
    ELSE IF IsSpace(Ch(s, Len(s))) THEN Strip(Slice(s, 1, Len(s) - 1))
    ELSE s

----------------------------------------------------------------------------
(* Event blocks of the QueueStatus exchange, already decoded by            *)
(* _parse_block.  Numeric fields are text, as on the wire.                 *)

IsInt(s) == \E i \in 1..Len(Digits) : Digits[i] = s

\* int(s) for a one-digit text
IntOf(s) == (CHOOSE i \in 1..Len(Digits) : Digits[i] = s) - 1

\* dict.get(key, default) on a decoded block
Get(ev, key, default) == IF key \in DOMAIN ev THEN ev[key] ELSE default

StatusLabel_Code5(Paused, Status) ==
    LET status_code == IntOf(Status)
        is_paused   == IntOf(Paused) = 1
    IN  IF is_paused THEN "paused"
        ELSE IF status_code \in {1, 5} THEN "online"
        ELSE IF status_code \in {2, 3, 7, 8} THEN "busy"
        ELSE "offline"

\* lines 146-156: status_code, is_paused and the label chosen from them
StatusLabel(Paused, Status) ==
    LET status_code == IntOf(Status)
        is_paused   == IntOf(Paused) = 1
    IN  IF is_paused THEN "paused"
        ELSE IF status_code \in {1, 6} THEN "online"
        ELSE IF status_code \in {2, 3, 7, 8} THEN "busy"
        ELSE "offline"

QueueNames == {"support"}

ParamsEvents ==
    [Event : {"QueueParams"}, Queue : QueueNames, Calls : {"0", "x"}]

\* the acknowledgment of the QueueStatus command
WillFollow == [Response |-> "Success", Message |-> "Queue status will follow"]

\* Status events: a call on PJSIP/102 connected to 201, and the same call
\* with the connected line not known and the caller id known
StatusEvents ==
    { [Event |-> "Status", Channel |-> "PJSIP/102-00001", Application |-> "Dial",
       ConnectedLineNum |-> "201", CallerIDNum |-> "102"],
      [Event |-> "Status", Channel |-> "PJSIP/102-00001", Application |-> "Dial",
       ConnectedLineNum |-> "<unknown>", CallerIDNum |-> "201"] }

\* the queue_members table
DbRows == <<[interface |-> "PJSIP/102", membername |-> "Robert"]>>

\* the arguments of perform_spy_action
SpyArgs == [supervisor_ext |-> "104", target_interface |-> "PJSIP/102",
            mode |-> "whisper"]

MemberEvents ==
    { [Event |-> "QueueMember", Queue |-> "support", Interface |-> "PJSIP/102",
       Name |-> "Bob", Status |-> "1", Paused |-> "0", Penalty |-> "1"],
      [Event |-> "QueueMember", Queue |-> "support", Interface |-> "PJSIP/101",
       Name |-> "Alice", Status |-> "2", Paused |-> "1", Penalty |-> "0"],
      [Event |-> "QueueMember", Queue |-> "support", Interface |-> "PJSIP/103",
       Name |-> "Carol", Status |-> "x", Paused |-> "0", Penalty |-> "0"] }

KeyLess_PenaltyOnly(a, b) == a.penalty < b.penalty

\* the sort key of line 224: (penalty, name), compared as Python tuples
KeyLess(a, b) ==
    \/ a.penalty < b.penalty
    \/ a.penalty = b.penalty /\ StrLess(a.name, b.name)

\* list.sort is stable: m goes after every element whose key is not greater
RECURSIVE InsertSorted(_, _)
InsertSorted(s, m) ==
    IF s = <<>> THEN <<m>>
    ELSE IF KeyLess(m, Head(s)) THEN <<m>> \o s
    ELSE <<Head(s)>> \o InsertSorted(Tail(s), m)

RECURSIVE SortMembers(_)
SortMembers(s) ==
    IF s = <<>> THEN <<>>
    ELSE InsertSorted(SortMembers(SubSeq(s, 1, Len(s) - 1)), s[Len(s)])

\* lines 223-226: every queue's members are sorted, the dict values are returned
Result(qd) == [i \in 1..Len(qd) |-> [qd[i] EXCEPT !.members = SortMembers(@)]]

\* position of queue q in the insertion-ordered dict, 0 when absent
QIndex(qd, q) ==
    IF \E i \in 1..Len(qd) : qd[i].name = q
    THEN CHOOSE i \in 1..Len(qd) : qd[i].name = q
    ELSE 0

\* lines 131-141: queues_data[q_name] = {...}; an existing key keeps its place
AddQueue(qd, ev) ==
    LET q == [name         |-> ev.Queue,
              strategy     |-> Get(ev, "Strategy", "unknown"),
              callsWaiting |-> IntOf(Get(ev, "Calls", "0")),
              answered     |-> IntOf(Get(ev, "Completed", "0")),
              abandoned    |-> IntOf(Get(ev, "Abandoned", "0")),
              serviceLevel |-> IntOf(Get(ev, "ServiceLevelPerf", "0")),
              members      |-> <<>>]
        i == QIndex(qd, ev.Queue)
    IN  IF i = 0 THEN Append(qd, q) ELSE [qd EXCEPT ![i] = q]

----------------------------------------------------------------------------
(* The name tables, lines 27-42 *)

\* a row counts when interface and membername are both non-empty
ValidRow(r) == r.interface # "" /\ r.membername # ""

\* the key a row is stored under in names_map, and in ext_map
RowInterface(r) == r.interface
RowExtension(r) == FirstDigits(r.interface)

\* the value the key k ends with: that of the last row that sets it, keys[i]
\* being the key of row i
LastName(tbl, keys, k) ==
    tbl[CHOOSE i \in 1..Len(tbl) :
            /\ ValidRow(tbl[i]) /\ keys[i] = k
            /\ \A j \in (i + 1)..Len(tbl) : ~(ValidRow(tbl[j]) /\ keys[j] = k)
        ].membername

\* _get_db_member_names: names_map by interface, ext_map by first digits;
\* no rows stands for a failed query as well, which leaves both maps empty
DbNames(tbl) ==
    LET valid == {i \in 1..Len(tbl) : ValidRow(tbl[i])}
        byInterface == [i \in 1..Len(tbl) |-> RowInterface(tbl[i])]
        byExtension == [i \in 1..Len(tbl) |-> RowExtension(tbl[i])]
    IN  [db_names  |-> [k \in {byInterface[i] : i \in valid}
                           |-> LastName(tbl, byInterface, k)],
         ext_names |-> [k \in {byExtension[i] : i \in valid} \ {""}
                           |-> LastName(tbl, byExtension, k)]]

\* dict.get(key), with None read as ""
Lookup(d, k) == IF k \in DOMAIN d THEN d[k] ELSE ""

----------------------------------------------------------------------------
(* The channel map, lines 99-114 *)

\* position of key k in the insertion-ordered dict, 0 when absent
CIndex(cm, k) ==
    IF \E i \in 1..Len(cm) : cm[i].key = k
    THEN CHOOSE i \in 1..Len(cm) : cm[i].key = k
    ELSE 0

\* one block of the Status exchange: a Status event with a usable party
\* number is stored under its lower-cased channel name
AddChannel(cm, ev) ==
    LET chan   == Get(ev, "Channel", "")
        p_num  == Or(Get(ev, "ConnectedLineNum", ""), Get(ev, "CallerIDNum", ""))
        p_name == Or(Get(ev, "ConnectedLineName", ""), Get(ev, "CallerIDName", ""))
        d == [key            |-> ToLower(chan),
              num            |-> p_num,
              name           |-> IF p_name # "" /\ p_name # "<unknown>" THEN p_name ELSE "",
              application    |-> Get(ev, "Application", ""),
              data           |-> Get(ev, "Data", ""),
              state          |-> Get(ev, "ChannelStateDesc", ""),
              connected_line |-> Get(ev, "ConnectedLineNum", ""),
              caller_id      |-> Get(ev, "CallerIDNum", "")]
        i == CIndex(cm, ToLower(chan))
    IN  IF Get(ev, "Event", "") = "Status" /\ p_num # "" /\ p_num # "<unknown>"
        THEN IF i = 0 THEN Append(cm, d) ELSE [cm EXCEPT ![i] = d]
        ELSE cm

\* the channel map after the blocks evs, in the order read
RECURSIVE ChannelMap(_)
ChannelMap(evs) ==
    IF evs = <<>> THEN <<>>
    ELSE AddChannel(ChannelMap(SubSeq(evs, 1, Len(evs) - 1)), evs[Len(evs)])

----------------------------------------------------------------------------
(* One QueueMember event, lines 143-221 *)

PyNone == [none |-> TRUE]

\* lines 158-165
MemberInterface(ev) == Or(Get(ev, "Interface", ""), Get(ev, "Location", ""))

AmiName(ev) == Or(Get(ev, "Name", ""), Get(ev, "MemberName", ""))

ExtNum(interface, ami_name) ==
    IF FirstDigits(interface) # "" THEN FirstDigits(interface)
    ELSE FirstDigits(ami_name)

MemberName_ExtFirst(tables, interface, ext_num, ami_name) ==
    Or(Or(Or(Lookup(tables.ext_names, ext_num), Lookup(tables.db_names, interface)),
          ami_name),
       ext_num)

\* line 167
MemberName(tables, interface, ext_num, ami_name) ==
    Or(Or(Or(Lookup(tables.db_names, interface), Lookup(tables.ext_names, ext_num)),
          ami_name),
       ext_num)

\* lines 180-188: the party shown for a matched channel
PartyOf(d, ext_num) ==
    LET other_num ==
            IF d.connected_line = "" \/ d.connected_line = ext_num
               \/ d.connected_line = "<unknown>"
            THEN d.caller_id
            ELSE d.connected_line
    IN  [num  |-> IF other_num # "" /\ other_num # ext_num THEN other_num ELSE d.num,
         name |-> IF other_num # d.num THEN d.name ELSE ""]

\* lines 169-188: the loop assigns on every match, so the last match stays
RECURSIVE ConnectedParty(_, _, _)
ConnectedParty(cm, interface, ext_num) ==
    IF cm = <<>> THEN PyNone
    ELSE LET d == cm[Len(cm)]
         IN  IF /\ interface # ""
                /\ Contains(d.key, ToLower(interface))
                /\ d.application # "ChanSpy"
             THEN PartyOf(d, ext_num)
             ELSE ConnectedParty(SubSeq(cm, 1, Len(cm) - 1), interface, ext_num)

\* lines 201-205
SpyMode(spy_data) ==
    IF Contains(ToLower(spy_data), "w") THEN "Whisper"
    ELSE IF Contains(spy_data, "b") THEN "Barge"
    ELSE IF Contains(ToLower(spy_data), "d") THEN "Interactive Spy"
    ELSE "Listen"

\* lines 196-199
Spyer(d) ==
    IF d.num = "" \/ d.num = "<unknown>"
    THEN IF SlashDigits(d.key) # "" THEN SlashDigits(d.key) ELSE "Supervisor"
    ELSE d.num

\* lines 190-210
RECURSIVE SpyStatus(_, _)
SpyStatus(cm, interface) ==
    IF cm = <<>> THEN PyNone
    ELSE LET d == cm[Len(cm)]
         IN  IF /\ d.application = "ChanSpy"
                /\ interface # ""
                /\ Contains(d.data, interface)
             THEN [spyer |-> Spyer(d), mode |-> SpyMode(d.data)]
             ELSE SpyStatus(SubSeq(cm, 1, Len(cm) - 1), interface)

\* lines 146-221: the dict appended for the event
BuildMember(ev, cm, tables) ==
    LET interface == MemberInterface(ev)
        ami_name  == AmiName(ev)
        ext_num   == ExtNum(interface, ami_name)
    IN  [name           |-> MemberName(tables, interface, ext_num, ami_name),
         number         |-> Or(ext_num, "???"),
         interface      |-> interface,
         status         |-> StatusLabel(Get(ev, "Paused", "0"), Get(ev, "Status", "0")),
         penalty        |-> IntOf(Get(ev, "Penalty", "0")),
         calls          |-> IntOf(Get(ev, "CallsTaken", "0")),
         connectedParty |-> ConnectedParty(cm, interface, ext_num),
         spyStatus      |-> SpyStatus(cm, interface)]

\* lines 143-221: a QueueMember of a known queue is appended to its members
AddMember(qd, ev, cm, tables) ==
    LET i == QIndex(qd, ev.Queue)
    IN  IF i = 0 THEN qd
        ELSE [qd EXCEPT ![i].members = Append(@, BuildMember(ev, cm, tables))]

\* int() and float() of a non-numeric text raise ValueError
ParamsRaises(ev) ==
    \/ ~IsInt(Get(ev, "Calls", "0"))
    \/ ~IsInt(Get(ev, "Completed", "0"))
    \/ ~IsInt(Get(ev, "Abandoned", "0"))
    \/ ~IsInt(Get(ev, "ServiceLevelPerf", "0"))

MemberRaises(qd, ev) ==
    /\ QIndex(qd, ev.Queue) # 0
    /\ \/ ~IsInt(Get(ev, "Status", "0"))
       \/ ~IsInt(Get(ev, "Paused", "0"))
       \/ ~IsInt(Get(ev, "Penalty", "0"))
       \/ ~IsInt(Get(ev, "CallsTaken", "0"))

----------------------------------------------------------------------------
NoOp == [startW |-> None, probe |-> "none", opened |-> 0, logins |-> 0,
         loginSock |-> None, cmdSock |-> None,
         statusDone |-> FALSE, qsDone |-> FALSE, malformed |-> FALSE,
         reads |-> 0, resp |-> "none", startR |-> None, cmds |-> <<>>]

NoWrite == [sock |-> None, cmd |-> "none", by |-> None, auth |-> FALSE]

NoPrev == [how |-> "none", by |-> None, complete |-> FALSE]

NoNames == DbNames(<<>>)

\* a PBX that is free to answer anything
AnyAnswers == [free |-> TRUE, status |-> <<>>, queue |-> <<>>]

NoEvent == [Event |-> "none"]
NoMember == [name |-> "none"]
NoListing == <<NoMember>>
NoArgs == [supervisor_ext |-> "", target_interface |-> "", mode |-> ""]
NoResult == [status |-> "none", message |-> ""]
NoStream == [blocks |-> <<>>, tail |-> ""]

SessionInit ==
    /\ pc = [p \in Procs |-> "idle"]
    /\ kind = [p \in Procs |-> "gqs"]
    /\ lock = None
    /\ waiters = <<>>
    /\ reader = None
    /\ writer = None
    /\ open = {}
    /\ socks = 0
    /\ peer = "none"
    /\ authed = FALSE
    /\ rxn = 0
    /\ queues_data = [p \in Procs |-> <<>>]
    /\ channel_map = <<>>
    /\ names = NoNames
    /\ unread = "none"
    /\ ret = [p \in Procs |-> [kind |-> "none"]]
    /\ calls = 0
    /\ logins = 0
    /\ op = NoOp
    /\ lastWrite = NoWrite
    /\ fresh = 0
    /\ prev = NoPrev

\* no run of the correlator, of the sort or of the framing
CorrIdle == event = NoEvent /\ status_events = <<>> /\ rows = <<>> /\ member = NoMember
SortIdle == polled = <<>> /\ listing = NoListing
FrameIdle == sent = NoStream /\ stream = "" /\ got = <<>>
OrigIdle == spy_args = NoArgs /\ action = "" /\ spy_resp = "" /\ result = NoResult

Init ==
    /\ SessionInit
    /\ answers = AnyAnswers
    /\ CorrIdle /\ SortIdle /\ FrameIdle /\ OrigIdle

----------------------------------------------------------------------------
(* asyncio.Lock *)

Acquire_NoWait(p) ==
    /\ lock' = p
    /\ pc' = [pc EXCEPT ![p] = "ensure"]
    /\ UNCHANGED waiters

\* Lock.acquire: taken at once when free and nobody is queued, else the
\* caller is appended to the waiters and suspended
Acquire(p) ==
    IF lock = None /\ waiters = <<>>
    THEN /\ lock' = p
         /\ pc' = [pc EXCEPT ![p] = "ensure"]
         /\ UNCHANGED waiters
    ELSE /\ waiters' = Append(waiters, p)
         /\ pc' = [pc EXCEPT ![p] = "wait"]
         /\ UNCHANGED lock

\* a suspended caller is resumed, first come first served, once the lock is free
Resume(p) ==
    /\ pc[p] = "wait"
    /\ lock = None
    /\ waiters # <<>> /\ Head(waiters) = p
    /\ lock' = p
    /\ waiters' = Tail(waiters)
    /\ pc' = [pc EXCEPT ![p] = "ensure"]
    /\ UNCHANGED <<kind, transport, rxn, queues_data, channel_map, names, ret, calls, logins, op,
                   lastWrite, fresh, prev>>
    /\ UNCHANGED <<answers, detached>>
    /\ UNCHANGED unread

\* line 83: a request enters get_queue_status
get_queue_status(p) ==
    /\ pc[p] = "idle"
    /\ calls < MaxCalls
    /\ calls' = calls + 1
    /\ kind' = [kind EXCEPT ![p] = "gqs"]
    /\ Acquire(p)
    /\ UNCHANGED <<transport, rxn, queues_data, channel_map, names, ret, logins, op, lastWrite,
                   fresh, prev>>
    /\ UNCHANGED <<answers, detached>>
    /\ UNCHANGED unread

\* line 251: a request enters perform_spy_action
perform_spy_action(p) ==
    /\ pc[p] = "idle"
    /\ calls < MaxCalls
    /\ calls' = calls + 1
    /\ kind' = [kind EXCEPT ![p] = "spy"]
    /\ Acquire(p)
    /\ UNCHANGED <<transport, rxn, queues_data, channel_map, names, ret, logins, op, lastWrite,
                   fresh, prev>>
    /\ UNCHANGED <<answers, detached>>
    /\ UNCHANGED unread

----------------------------------------------------------------------------
\* the locals of a call die with it
Locals(p) ==
    /\ queues_data' = [queues_data EXCEPT ![p] = <<>>]
    /\ channel_map' = <<>>
    /\ names' = NoNames
    /\ rxn' = 0

(* What a write / drain can do, by the state of the PBX end *)
WriteOutcomes == IF peer = "live" THEN {"ok"} ELSE {"ok", "exc"}

GqsExcept_KeepWriter(p) ==
    /\ open' = open
    /\ writer' = writer
    /\ ret' = [ret EXCEPT ![p] = [kind |-> "list", val |-> <<>>]]
    /\ prev' = [how |-> "gqs_failed", by |-> p, complete |-> FALSE]
    /\ pc' = [pc EXCEPT ![p] = "idle"]
    /\ lock' = None
    /\ Locals(p)

\* lines 228-244: both handlers of get_queue_status close the writer, clear
\* it and return []; the lock is released on the way out
GqsExcept(p) ==
    /\ open' = IF writer # None THEN open \ {writer} ELSE open
    /\ writer' = None
    /\ ret' = [ret EXCEPT ![p] = [kind |-> "list", val |-> <<>>]]
    /\ prev' = [how |-> "gqs_failed", by |-> p, complete |-> FALSE]
    /\ pc' = [pc EXCEPT ![p] = "idle"]
    /\ lock' = None
    /\ Locals(p)

\* str(e) of the exception a step raises: TimeoutError has no text, the
\* others carry the text of the OSError
ExcText(p) ==
    CASE pc[p] = "origR"   -> ""
      [] pc[p] = "connect" -> "[Errno 111] Connect call failed"
      [] pc[p] = "banner"  -> "[Errno 104] Connection reset by peer"
      [] OTHER             -> "Connection lost"

\* lines 292-296: the handler of perform_spy_action clears the writer and
\* returns an error status; the lock is released on the way out
SpyExcept(p) ==
    /\ open' = open
    /\ writer' = None
    /\ ret' = [ret EXCEPT ![p] = [kind |-> "spy", status |-> "error",
                                  message |-> ExcText(p)]]
    /\ prev' = [how |-> "spy_failed", by |-> p, complete |-> FALSE]
    /\ pc' = [pc EXCEPT ![p] = "idle"]
    /\ lock' = None
    /\ Locals(p)

Except(p) == IF kind[p] = "gqs" THEN GqsExcept(p) ELSE SpyExcept(p)

----------------------------------------------------------------------------
(* _ensure_connected, lines 44-76 *)

\* lines 46-50 and 55-58: with a writer, Ping is written and drained; a
\* failing drain closes and clears the writer.  Without a writer the code
\* goes straight to the reconnect.
Ensure(p) ==
    /\ pc[p] = "ensure"
    /\ IF writer # None
       THEN \E o \in WriteOutcomes :
              /\ lastWrite' = [sock |-> writer, cmd |-> "Ping", by |-> p,
                                auth |-> authed]
              /\ IF o = "ok"
                 THEN /\ pc' = [pc EXCEPT ![p] = "pingR"]
                      /\ op' = [NoOp EXCEPT !.startW = writer, !.startR = reader,
                                        !.cmds = <<"Ping">>]
                      /\ UNCHANGED <<writer, open, fresh>>
                 ELSE /\ pc' = [pc EXCEPT ![p] = "connect"]
                      /\ op' = [NoOp EXCEPT !.startW = writer, !.startR = reader,
                                        !.cmds = <<"Ping">>, !.probe = "fail"]
                      /\ open' = open \ {writer}
                      /\ writer' = None
                      /\ fresh' = fresh + 1
       ELSE /\ pc' = [pc EXCEPT ![p] = "connect"]
            /\ op' = [NoOp EXCEPT !.startR = reader]
            /\ fresh' = fresh + 1
            /\ UNCHANGED <<writer, open, lastWrite>>
    /\ UNCHANGED <<kind, lock, waiters, reader, socks, peer, authed, rxn,
                   queues_data, channel_map, names, ret, calls, logins, prev>>
    /\ UNCHANGED <<answers, detached>>
    /\ unread' = IF writer # None THEN "Ping" ELSE unread

\* the first step of the body after _ensure_connected returned
Body(p) == IF kind[p] = "gqs" THEN "statusW" ELSE "origW"

\* the "return" of line 54 is missing: a good reply reconnects as well
PingRead_NoReturn(p) ==
    /\ pc[p] = "pingR"
    /\ CASE peer = "live" /\ authed ->
              /\ pc' = [pc EXCEPT ![p] = "connect"]
              /\ op' = [op EXCEPT !.probe = "ok"]
              /\ UNCHANGED <<writer, open, fresh>>
         [] peer = "silent" ->
              /\ pc' = [pc EXCEPT ![p] = "connect"]
              /\ op' = [op EXCEPT !.probe = "fail"]
              /\ open' = open \ {writer}
              /\ writer' = None
              /\ fresh' = fresh + 1
         [] OTHER ->
              /\ pc' = [pc EXCEPT ![p] = "connect"]
              /\ op' = [op EXCEPT !.probe = "fail"]
              /\ fresh' = fresh + 1
              /\ UNCHANGED <<writer, open>>
    /\ UNCHANGED <<kind, lock, waiters, reader, socks, peer, authed, rxn,
                   queues_data, channel_map, names, ret, calls, logins, lastWrite, prev>>
    /\ UNCHANGED <<answers, detached>>
    /\ unread' = IF peer = "silent" THEN unread ELSE "none"

\* any reply, good or not, is taken for a live connection
PingRead_AnyReply(p) ==
    /\ pc[p] = "pingR"
    /\ CASE peer = "live" /\ authed ->
              /\ pc' = [pc EXCEPT ![p] = Body(p)]
              /\ op' = [op EXCEPT !.probe = "ok"]
              /\ UNCHANGED <<writer, open, fresh>>
         [] peer = "silent" ->
              /\ pc' = [pc EXCEPT ![p] = "connect"]
              /\ op' = [op EXCEPT !.probe = "fail"]
              /\ open' = open \ {writer}
              /\ writer' = None
              /\ fresh' = fresh + 1
         [] OTHER ->
              /\ pc' = [pc EXCEPT ![p] = Body(p)]
              /\ op' = [op EXCEPT !.probe = "fail"]
              /\ fresh' = fresh + 1
              /\ UNCHANGED <<writer, open>>
    /\ UNCHANGED <<kind, lock, waiters, reader, socks, peer, authed, rxn,
                   queues_data, channel_map, names, ret, calls, logins, lastWrite, prev>>
    /\ UNCHANGED <<answers, detached>>
    /\ unread' = IF peer = "silent" THEN unread ELSE "none"

\* lines 51-58: the reply to the Ping, read with a 2 s bound
\*   success reply      -> return, connection reused
\*   timeout            -> except: close and clear the writer, reconnect
\*   any other block    -> falls out of the try, reconnect
PingRead(p) ==
    /\ pc[p] = "pingR"
    /\ CASE peer = "live" /\ authed ->
              /\ pc' = [pc EXCEPT ![p] = Body(p)]
              /\ op' = [op EXCEPT !.probe = "ok"]
              /\ UNCHANGED <<writer, open, fresh>>
         [] peer = "silent" ->
              /\ pc' = [pc EXCEPT ![p] = "connect"]
              /\ op' = [op EXCEPT !.probe = "fail"]
              /\ open' = open \ {writer}
              /\ writer' = None
              /\ fresh' = fresh + 1
         [] OTHER ->
              /\ pc' = [pc EXCEPT ![p] = "connect"]
              /\ op' = [op EXCEPT !.probe = "fail"]
              /\ fresh' = fresh + 1
              /\ UNCHANGED <<writer, open>>
    /\ UNCHANGED <<kind, lock, waiters, reader, socks, peer, authed, rxn,
                   queues_data, channel_map, names, ret, calls, logins, lastWrite, prev>>
    /\ UNCHANGED <<answers, detached>>
    /\ unread' = IF peer = "silent" THEN unread ELSE "none"

\* lines 61-63: open_connection with a 5 s bound; a timeout or a refused
\* connection raises into the caller's handler
Connect(p) ==
    /\ pc[p] = "connect"
    /\ \/ /\ socks' = socks + 1
          /\ reader' = socks + 1
          /\ writer' = socks + 1
          /\ open' = open \cup {socks + 1}
          /\ peer' = "live"
          /\ authed' = FALSE
          /\ unread' = "none"
          /\ op' = [op EXCEPT !.opened = @ + 1]
          /\ pc' = [pc EXCEPT ![p] = "banner"]
          /\ UNCHANGED <<lock, ret, prev, rxn, queues_data, channel_map, names>>
       \/ /\ Except(p)
          /\ UNCHANGED <<reader, socks, peer, authed, op, unread>>
    /\ UNCHANGED <<kind, waiters, calls, logins, lastWrite, fresh>>
    /\ UNCHANGED <<answers, detached>>


\* line 64: reader.readline() with no bound; end of stream gives b"", a
\* reset connection raises, a silent PBX leaves the call suspended
Banner(p) ==
    /\ pc[p] = "banner"
    /\ peer # "silent"
    /\ \/ /\ pc' = [pc EXCEPT ![p] = "loginW"]
          /\ UNCHANGED <<lock, writer, open, ret, prev, rxn, queues_data, channel_map, names>>
       \/ /\ peer = "closed"
          /\ Except(p)
    /\ UNCHANGED <<kind, waiters, reader, socks, peer, authed, calls, logins, op,
                   lastWrite, fresh>>
    /\ UNCHANGED <<answers, detached>>
    /\ UNCHANGED unread

\* lines 67-74: the Login command is written and drained
LoginWrite(p) ==
    /\ pc[p] = "loginW"
    /\ logins' = logins + 1
    /\ op' = [op EXCEPT !.logins = @ + 1, !.loginSock = writer,
                         !.cmds = Append(@, "Login")]
    /\ lastWrite' = [sock |-> writer, cmd |-> "Login", by |-> p, auth |-> authed]
    /\ \E o \in WriteOutcomes :
         IF o = "ok"
         THEN /\ pc' = [pc EXCEPT ![p] = "loginR"]
              /\ UNCHANGED <<lock, writer, open, ret, prev, rxn, queues_data, channel_map, names>>
         ELSE Except(p)
    /\ UNCHANGED <<kind, waiters, reader, socks, peer, authed, calls, fresh>>
    /\ UNCHANGED <<answers, detached>>
    /\ unread' = "Login"

\* lines 75-76: one block is read, with no bound, and not looked at
LoginRead(p) ==
    /\ pc[p] = "loginR"
    /\ peer # "silent"
    /\ \/ peer = "live" /\ authed' = TRUE
       \/ peer = "live" /\ authed' = FALSE
       \/ peer = "closed" /\ authed' = authed
    /\ pc' = [pc EXCEPT ![p] = Body(p)]
    /\ UNCHANGED <<kind, lock, waiters, reader, writer, open, socks, peer, rxn,
                   queues_data, channel_map, names, ret, calls, logins, op, lastWrite, fresh, prev>>
    /\ UNCHANGED <<answers, detached>>
    /\ unread' = "none"

----------------------------------------------------------------------------
(* get_queue_status, lines 83-244 *)

Return_Accumulate(p, complete) ==
    /\ ret' = [ret EXCEPT ![p] =
                 [kind |-> "list",
                  val |-> (IF prev.how = "gqs_ok" THEN ret[prev.by].val ELSE <<>>)
                          \o Result(queues_data[p])]]
    /\ prev' = [how |-> "gqs_ok", by |-> p, complete |-> complete]
    /\ pc' = [pc EXCEPT ![p] = "idle"]
    /\ lock' = None
    /\ Locals(p)

\* lines 223-226 and the end of "async with": the sorted queues are returned
Return(p, complete) ==
    /\ ret' = [ret EXCEPT ![p] = [kind |-> "list", val |-> Result(queues_data[p])]]
    /\ prev' = [how |-> "gqs_ok", by |-> p, complete |-> complete]
    /\ pc' = [pc EXCEPT ![p] = "idle"]
    /\ lock' = None
    /\ Locals(p)

\* the blocks the PBX may send next in the current exchange: anything of
\* the set any while fewer than MaxEvents were sent, or the next block of
\* the script when the answers are fixed
Offered(script, any) ==
    IF answers.free
    THEN IF rxn < MaxEvents THEN any ELSE {}
    ELSE IF rxn < Len(script) THEN {script[rxn + 1]} ELSE {}

\* the PBX may send the terminator of the exchange
Finished(script) == answers.free \/ rxn = Len(script)

\* line 88: the name tables are read from the database; a failing query
\* leaves both empty
DbLoads ==
    IF answers.free THEN {DbNames(DbRows), DbNames(<<>>)}
    ELSE {DbNames(answers.rows)}

\* lines 88-94: the name tables are loaded, the Status command is written
\* and drained
StatusWrite(p) ==
    /\ pc[p] = "statusW"
    /\ lastWrite' = [sock |-> writer, cmd |-> "Status", by |-> p, auth |-> authed]
    /\ op' = [op EXCEPT !.cmdSock = writer, !.cmds = Append(@, "Status")]
    /\ \E o \in WriteOutcomes :
         IF o = "ok"
         THEN /\ pc' = [pc EXCEPT ![p] = "statusR"]
              /\ rxn' = 0
              /\ names' \in DbLoads
              /\ channel_map' = <<>>
              /\ UNCHANGED <<lock, writer, open, ret, prev, queues_data>>
         ELSE Except(p)
    /\ UNCHANGED <<kind, waiters, reader, socks, peer, authed, calls, logins, fresh>>
    /\ UNCHANGED <<answers, detached>>
    /\ unread' = "Status"

\* the loop is left after the first event block
StatusRead_OneBlock(p) ==
    /\ pc[p] = "statusR"
    /\ \/ /\ peer = "live" /\ authed
          /\ \E ev \in Offered(answers.status, StatusEvents) :
               channel_map' = AddChannel(channel_map, ev)
          /\ rxn' = rxn + 1
          /\ pc' = [pc EXCEPT ![p] = "qsW"]
          /\ UNCHANGED <<op, unread>>
       \/ /\ peer = "live" /\ authed /\ Finished(answers.status)
          /\ pc' = [pc EXCEPT ![p] = "qsW"]
          /\ op' = [op EXCEPT !.statusDone = TRUE]
          /\ unread' = "none"
          /\ UNCHANGED <<rxn, channel_map>>
       \/ /\ peer = "live" /\ ~authed /\ rxn = 0
          /\ rxn' = 1
          /\ unread' = "none"
          /\ UNCHANGED <<pc, op, channel_map>>
       \/ /\ peer = "closed"
          /\ unread' = "none"
          /\ UNCHANGED <<pc, op, rxn, channel_map>>
    /\ UNCHANGED <<kind, lock, waiters, transport, queues_data, names, ret, calls,
                   logins, lastWrite, fresh, prev>>
    /\ UNCHANGED <<answers, detached>>

\* lines 95-114: blocks are read, with no bound, until StatusComplete.
\*   an authenticated PBX sends blocks, then StatusComplete
\*   an unauthenticated PBX sends one error block and nothing more
\*   a closed stream gives the empty block, which is not StatusComplete
StatusRead(p) ==
    /\ pc[p] = "statusR"
    /\ \/ /\ peer = "live" /\ authed
          /\ \E ev \in Offered(answers.status, StatusEvents) :
               channel_map' = AddChannel(channel_map, ev)
          /\ rxn' = rxn + 1
          /\ UNCHANGED <<pc, op, unread>>
       \/ /\ peer = "live" /\ authed /\ Finished(answers.status)
          /\ pc' = [pc EXCEPT ![p] = "qsW"]
          /\ op' = [op EXCEPT !.statusDone = TRUE]
          /\ unread' = "none"
          /\ UNCHANGED <<rxn, channel_map>>
       \/ /\ peer = "live" /\ ~authed /\ rxn = 0
          /\ rxn' = 1
          /\ unread' = "none"
          /\ UNCHANGED <<pc, op, channel_map>>
       \/ /\ peer = "closed"
          /\ unread' = "none"
          /\ UNCHANGED <<pc, op, rxn, channel_map>>
    /\ UNCHANGED <<kind, lock, waiters, transport, queues_data, names, ret, calls,
                   logins, lastWrite, fresh, prev>>
    /\ UNCHANGED <<answers, detached>>

\* lines 116-120: the QueueStatus command is written and drained
QueueStatusWrite(p) ==
    /\ pc[p] = "qsW"
    /\ lastWrite' = [sock |-> writer, cmd |-> "QueueStatus", by |-> p,
                      auth |-> authed]
    /\ \E o \in WriteOutcomes :
         IF o = "ok"
         THEN /\ pc' = [pc EXCEPT ![p] = "qsR"]
              /\ rxn' = 0
              /\ queues_data' = [queues_data EXCEPT ![p] = <<>>]
              /\ UNCHANGED <<lock, writer, open, ret, prev, channel_map, names>>
         ELSE Except(p)
    /\ op' = [op EXCEPT !.cmds = Append(@, "QueueStatus")]
    /\ UNCHANGED <<kind, waiters, reader, socks, peer, authed, calls, logins, fresh>>
    /\ UNCHANGED <<answers, detached>>
    /\ unread' = "QueueStatus"

\* line 127: the acknowledgment of the command
IsWillFollow(ev) ==
    /\ Get(ev, "Response", "") = "Success"
    /\ Contains(Get(ev, "Message", ""), "status will follow")

\* lines 121-226: blocks are read, with no bound, until QueueStatusComplete
\* or an empty block
QueueStatusRead(p) ==
    /\ pc[p] = "qsR"
    /\ \/ \* a QueueParams event
          /\ peer = "live" /\ authed
          /\ \E ev \in Offered(answers.queue, ParamsEvents) :
               /\ Get(ev, "Event", "") = "QueueParams"
               /\ IF ParamsRaises(ev)
                  THEN /\ Except(p)
                       /\ op' = [op EXCEPT !.malformed = TRUE]
                       /\ UNCHANGED unread
                  ELSE /\ queues_data' = [queues_data EXCEPT ![p] = AddQueue(@, ev)]
                       /\ rxn' = rxn + 1
                       /\ UNCHANGED <<pc, lock, writer, open, ret, prev, op,
                                      channel_map, names, unread>>
       \/ \* a QueueMember event
          /\ peer = "live" /\ authed
          /\ \E ev \in Offered(answers.queue, MemberEvents) :
               /\ Get(ev, "Event", "") = "QueueMember"
               /\ IF MemberRaises(queues_data[p], ev)
                  THEN /\ Except(p)
                       /\ op' = [op EXCEPT !.malformed = TRUE]
                       /\ UNCHANGED unread
                  ELSE /\ queues_data' = [queues_data EXCEPT ![p] =
                                             AddMember(@, ev, channel_map, names)]
                       /\ rxn' = rxn + 1
                       /\ UNCHANGED <<pc, lock, writer, open, ret, prev, op,
                                      channel_map, names, unread>>
       \/ \* lines 127-129: the "Queue status will follow" acknowledgment
          /\ peer = "live" /\ authed
          /\ answers.free => rxn = 0
          /\ \E ev \in Offered(answers.queue, {WillFollow}) : IsWillFollow(ev)
          /\ rxn' = rxn + 1
          /\ UNCHANGED <<pc, lock, writer, open, ret, prev, op, queues_data,
                         channel_map, names, unread>>
       \/ \* the QueueStatusComplete event
          /\ peer = "live" /\ authed /\ Finished(answers.queue)
          /\ op' = [op EXCEPT !.qsDone = TRUE]
          /\ Return(p, op.statusDone)
          /\ unread' = "none"
          /\ UNCHANGED <<writer, open>>
       \/ \* an error block from an unauthenticated PBX: no branch takes it
          /\ peer = "live" /\ ~authed /\ rxn = 0
          /\ rxn' = 1
          /\ unread' = "none"
          /\ UNCHANGED <<pc, lock, writer, open, ret, prev, op, queues_data,
                         channel_map, names>>
       \/ \* line 123: the empty block of a closed stream ends the loop
          /\ peer = "closed"
          /\ Return(p, FALSE)
          /\ unread' = "none"
          /\ UNCHANGED <<writer, open, op>>
    /\ UNCHANGED <<kind, waiters, reader, socks, peer, authed, calls, logins,
                   lastWrite, fresh>>
    /\ UNCHANGED <<answers, detached>>

----------------------------------------------------------------------------
(* perform_spy_action, lines 251-296 *)

\* the ChanSpy options follow the mode asked for
OriginateAction_ModeOptions(supervisor_ext, target_interface, mode) ==
    LET options == IF mode = "whisper" THEN "qw"
                   ELSE IF mode = "barge" THEN "qB" ELSE "q"
        supervisor_chan == "PJSIP/" \o supervisor_ext
    IN  "Action: Originate\r\n"
        \o "Channel: " \o supervisor_chan \o "\r\n"
        \o "Application: ChanSpy\r\n"
        \o "Data: " \o target_interface \o "," \o options \o "\r\n"
        \o "CallerID: \"Spy: " \o target_interface \o "\" <" \o supervisor_ext \o ">\r\n"
        \o "Variable: VAR1=SpyAction\r\n"
        \o "Async: true\r\n\r\n"

\* lines 255-278: the text of the Originate command; encode() of line 280
\* turns each of its characters, all ASCII here, into the byte of that value
OriginateAction(supervisor_ext, target_interface, mode) ==
    LET options == "dq"
        supervisor_chan == "PJSIP/" \o supervisor_ext
    IN  "Action: Originate\r\n"
        \o "Channel: " \o supervisor_chan \o "\r\n"
        \o "Application: ChanSpy\r\n"
        \o "Data: " \o target_interface \o "," \o options \o "\r\n"
        \o "CallerID: \"Spy: " \o target_interface \o "\" <" \o supervisor_ext \o ">\r\n"
        \o "Variable: VAR1=SpyAction\r\n"
        \o "Async: true\r\n\r\n"

\* lines 255-281: the Originate command is written and drained
OriginateWrite(p) ==
    /\ pc[p] = "origW"
    /\ lastWrite' = [sock |-> writer, cmd |-> "Originate", by |-> p, auth |-> authed]
    /\ op' = [op EXCEPT !.cmdSock = writer, !.cmds = Append(@, "Originate")]
    /\ \E o \in WriteOutcomes :
         IF o = "ok"
         THEN /\ pc' = [pc EXCEPT ![p] = "origR"]
              /\ rxn' = 0
              /\ UNCHANGED <<lock, writer, open, ret, prev, queues_data,
                             channel_map, names>>
         ELSE Except(p)
    /\ UNCHANGED <<kind, waiters, reader, socks, peer, authed, calls, logins, fresh>>
    /\ UNCHANGED <<answers, detached>>
    /\ unread' = "Originate"

IsSuccess_Response(resp) == Contains(resp, "Response")

\* line 287: the test on the response text
IsSuccess(resp) == Contains(resp, "Success") \/ Contains(resp, "Queued")

\* lines 287-290: the value returned for the response text
SpyValue(resp, mode, target_interface) ==
    IF IsSuccess(resp)
    THEN [status |-> "success",
          message |-> "Spy " \o mode \o " initiated for " \o target_interface]
    ELSE [status |-> "error", message |-> "AMI error: " \o Strip(resp)]

\* a refused command drops the session's writer, as an exception does
SpyReturn_Escalate(p, resp) ==
    /\ ret' = [ret EXCEPT ![p] =
                 LET v == SpyValue(resp, SpyArgs.mode, SpyArgs.target_interface)
                 IN  [kind |-> "spy", status |-> v.status, message |-> v.message]]
    /\ prev' = [how |-> IF IsSuccess(resp) THEN "spy_ok" ELSE "spy_declined",
                by |-> p, complete |-> TRUE]
    /\ pc' = [pc EXCEPT ![p] = "idle"]
    /\ lock' = None
    /\ Locals(p)
    /\ writer' = IF IsSuccess(resp) THEN writer ELSE None
    /\ UNCHANGED open

\* lines 287-290: the value returned for the response, and the end of
\* "async with"
SpyReturn(p, resp) ==
    /\ ret' = [ret EXCEPT ![p] =
                 LET v == SpyValue(resp, SpyArgs.mode, SpyArgs.target_interface)
                 IN  [kind |-> "spy", status |-> v.status, message |-> v.message]]
    /\ prev' = [how |-> IF IsSuccess(resp) THEN "spy_ok" ELSE "spy_declined",
                by |-> p, complete |-> TRUE]
    /\ pc' = [pc EXCEPT ![p] = "idle"]
    /\ lock' = None
    /\ Locals(p)
    /\ UNCHANGED <<writer, open>>

\* what the PBX answers to the Originate: an authenticated PBX queues the
\* call or refuses it, an unauthenticated one refuses the command, a closed
\* stream gives the empty block
OriginateReplies ==
    IF peer = "closed" THEN {""}
    ELSE IF authed
    THEN {"Response: Success\r\nMessage: Originate successfully queued\r\n\r\n",
          "Response: Error\r\nMessage: Originate failed\r\n\r\n"}
    ELSE {"Response: Error\r\nMessage: Permission denied\r\n\r\n"}

\* lines 284-296: one block is read with a 3 s bound
OriginateRead(p) ==
    /\ pc[p] = "origR"
    /\ \/ /\ peer \in {"live", "closed"}
          /\ \E resp \in OriginateReplies :
               /\ op' = [op EXCEPT !.resp = resp, !.reads = @ + 1]
               /\ SpyReturn(p, resp)
          /\ unread' = "none"
       \/ /\ peer = "silent"
          /\ Except(p)
          /\ UNCHANGED <<op, unread>>
    /\ UNCHANGED <<kind, waiters, reader, socks, peer, authed, calls, logins,
                   lastWrite, fresh>>
    /\ UNCHANGED <<answers, detached>>

----------------------------------------------------------------------------
(* The PBX *)

\* the PBX stops sending, or closes the stream, at any moment
PBXDrop ==
    /\ \/ peer = "live" /\ peer' \in {"silent", "closed"}
       \/ peer = "silent" /\ peer' = "closed"
    /\ UNCHANGED <<pc, kind, lock, waiters, reader, writer, open, socks, authed,
                   rxn, queues_data, channel_map, names, ret, calls, logins, op, lastWrite, fresh, prev>>
    /\ UNCHANGED <<answers, detached>>
    /\ UNCHANGED unread

----------------------------------------------------------------------------
\* the steps of a call once it has entered
Step(p) ==
    \/ Resume(p)
    \/ Ensure(p) \/ PingRead(p) \/ Connect(p) \/ Banner(p)
    \/ LoginWrite(p) \/ LoginRead(p)
    \/ StatusWrite(p) \/ StatusRead(p)
    \/ QueueStatusWrite(p) \/ QueueStatusRead(p)
    \/ OriginateWrite(p) \/ OriginateRead(p)

Next ==
    \/ \E p \in Procs : get_queue_status(p)
    \/ \E p \in Procs : perform_spy_action(p)
    \/ \E p \in Procs : Resume(p)
    \/ \E p \in Procs : Ensure(p)
    \/ \E p \in Procs : PingRead(p)
    \/ \E p \in Procs : Connect(p)
    \/ \E p \in Procs : Banner(p)
    \/ \E p \in Procs : LoginWrite(p)
    \/ \E p \in Procs : LoginRead(p)
    \/ \E p \in Procs : StatusWrite(p)
    \/ \E p \in Procs : StatusRead(p)
    \/ \E p \in Procs : QueueStatusWrite(p)
    \/ \E p \in Procs : QueueStatusRead(p)
    \/ \E p \in Procs : OriginateWrite(p)
    \/ \E p \in Procs : OriginateRead(p)
    \/ PBXDrop

Spec == Init /\ [][Next]_vars

\* The event loop runs a caller's steps whenever they are ready; nothing
\* obliges a request to arrive or the PBX to fail.
FairSpec == Spec /\ \A p \in Procs : WF_vars(Step(p))

----------------------------------------------------------------------------
(* The body of the QueueMember branch, lines 143-221, run on its own on    *)
(* one event of a known queue.                                             *)

\* an event field: left out of the block when the PBX does not send it
Absent == "(absent)"
Field(k, v) == IF v = Absent THEN <<>> ELSE (k :> v)

\* the sequences over S of length up to n
SeqsUpTo(S, n) == UNION {[1..k -> S] : k \in 0..n}

MemberInputs ==
    [Event : {"QueueMember"}, Queue : QueueNames,
     Interface : {"PJSIP/102", "Local/agent"}, Name : {"Bob", "Alice"},
     Status : {Digits[i] : i \in 1..Len(Digits)}, Paused : {"0", "1"},
     Penalty : {"0", "1"}]

\* members for the runs with channels: one on interface PJSIP/102, one
\* whose event names no interface
ChannelMembers ==
    { [Event |-> "QueueMember", Queue |-> "support", Name |-> "Bob"]
          @@ Field("Interface", i) : i \in {"PJSIP/102", Absent} }

\* Status events of calls: on PJSIP/102 with every connected line and
\* caller id, and one on another interface
CallInputs ==
    { [Event |-> "Status", Channel |-> "PJSIP/102-00001", Application |-> "Dial",
       ConnectedLineName |-> "Zed"]
          @@ Field("ConnectedLineNum", cl) @@ Field("CallerIDNum", cid) :
        cl \in {Absent, "<unknown>", "102", "201"},
        cid \in {Absent, "102", "305"} }
    \cup { [Event |-> "Status", Channel |-> "PJSIP/104-00002", Application |-> "Dial",
            ConnectedLineNum |-> "201"] }

\* the Data of a ChanSpy channel: the spied interface and the options
SpyData ==
    {"PJSIP/102,q", "PJSIP/102,qw", "PJSIP/102,bw", "PJSIP/102,Bw",
     "PJSIP/102,bq", "PJSIP/102,Bq", "PJSIP/102,dq", "PJSIP/103,w"}

\* Status events of monitor channels: with a number and every data, and
\* without a number
SpyInputs ==
    { [Event |-> "Status", Channel |-> "PJSIP/104-00002", Application |-> "ChanSpy",
       ConnectedLineNum |-> "104", Data |-> d] : d \in SpyData }
    \cup { [Event |-> "Status", Channel |-> c, Application |-> "ChanSpy",
            Data |-> "PJSIP/102,qw"] : c \in {"PJSIP/104-00002", "Local/sup"} }

StatusInputs == CallInputs \cup SpyInputs

MaxChannels == 2           \* Status events in one correlator run

\* members for the runs with name tables
NameMembers ==
    { [Event |-> "QueueMember", Queue |-> "support"]
          @@ Field("Interface", i) @@ Field("Location", l)
          @@ Field("Name", n) @@ Field("MemberName", m) :
        i \in {Absent, "PJSIP/102", "Local/agent"}, l \in {Absent, "SIP/7"},
        n \in {Absent, "Bob", "Agent 55"}, m \in {Absent, "Ann"} }

\* rows of queue_members, NULL read as ""
RowInputs ==
    { [interface |-> r[1], membername |-> r[2]] :
        r \in {<<"PJSIP/102", "Robert">>, <<"PJSIP/102", "">>, <<"SIP/102", "Bobby">>,
               <<"Local/agent", "Ann L">>, <<"PJSIP/55", "Fifty">>} }

MaxRows == 2               \* rows of the table in one correlator run

\* the runs: every member event alone, the members with channels, the
\* members with name tables
CorrInputs ==
    [event : MemberInputs, status_events : {<<>>}, rows : {<<>>}]
    \cup [event : ChannelMembers, status_events : SeqsUpTo(StatusInputs, MaxChannels),
          rows : {<<>>}]
    \cup [event : NameMembers, status_events : {<<>>},
          rows : SeqsUpTo(RowInputs, MaxRows)]

KnownQueue == AddQueue(<<>>, [Event |-> "QueueParams", Queue |-> "support"])

CorrInit ==
    /\ SessionInit
    /\ answers = AnyAnswers
    /\ SortIdle /\ FrameIdle /\ OrigIdle
    /\ \E in \in CorrInputs :
         /\ event = in.event
         /\ status_events = in.status_events
         /\ rows = in.rows
    /\ member = NoMember

\* lines 88, 95-114 and 143-221 on the inputs of the run
ProcessMember ==
    /\ member = NoMember
    /\ member' = AddMember(KnownQueue, event, ChannelMap(status_events),
                           DbNames(rows))[1].members[1]
    /\ UNCHANGED <<event, status_events, rows, session, sorter, framer, originator>>

\* line 122: the loop reads the next QueueMember event, with the channel
\* map and the name tables of the poll
NextMember ==
    /\ member # NoMember
    /\ event' \in ChannelMembers
    /\ member' = NoMember
    /\ UNCHANGED <<status_events, rows, session, sorter, framer, originator>>

CorrNext == ProcessMember \/ NextMember

CorrSpec == CorrInit /\ [][CorrNext]_vars

----------------------------------------------------------------------------
(* The QueueMember events of one queue and the sort of lines 223-226, run  *)
(* on their own.                                                           *)

MaxMembers == 3            \* QueueMember events in one sort run

\* members of three names and two penalties, and one more that differs
\* from another by its interface only
SortInputs ==
    [Event : {"QueueMember"}, Queue : QueueNames, Interface : {"PJSIP/101"},
     Name : {"Al", "Alice", "bob"}, Penalty : {"0", "1"}]
    \cup [Event : {"QueueMember"}, Queue : QueueNames, Interface : {"PJSIP/102"},
          Name : {"Al"}, Penalty : {"0"}]

\* lines 143-221 on every event in turn, with no channel and no name table
RECURSIVE Gather(_)
Gather(evs) ==
    IF evs = <<>> THEN KnownQueue
    ELSE AddMember(Gather(SubSeq(evs, 1, Len(evs) - 1)), evs[Len(evs)], <<>>, NoNames)

\* the members returned for the queue
Listing(evs) == Result(Gather(evs))[1].members

SortInit ==
    /\ SessionInit
    /\ answers = AnyAnswers
    /\ CorrIdle /\ FrameIdle /\ OrigIdle
    /\ polled \in SeqsUpTo(SortInputs, MaxMembers)
    /\ listing = NoListing

SortPoll ==
    /\ listing = NoListing
    /\ listing' = Listing(polled)
    /\ UNCHANGED <<polled, session, correlator, framer, originator>>

\* the next poll reads the same events, the first of them last
NextPoll ==
    /\ listing # NoListing
    /\ polled' = IF polled = <<>> THEN <<>> ELSE Append(Tail(polled), Head(polled))
    /\ listing' = NoListing
    /\ UNCHANGED <<session, correlator, framer, originator>>

SortNext == SortPoll \/ NextPoll

SortSpec == SortInit /\ [][SortNext]_vars

----------------------------------------------------------------------------
(* _read_until_delimiter, lines 298-308, run on its own on a byte stream   *)

Delim == "\r\n\r\n"

\* stands for a byte that is not valid UTF-8
BadByte == "#"

\* bytes.decode('utf-8', errors='ignore'): undecodable bytes are dropped
RECURSIVE Decode(_)
Decode(b) ==
    IF b = "" THEN ""
    ELSE (IF Ch(b, 1) = BadByte THEN "" ELSE Ch(b, 1)) \o Decode(Slice(b, 2, Len(b)))

\* StreamReader.readline: the bytes up to and including the first "\n", or
\* all that is left at the end of the stream
Readline(st) ==
    IF \E i \in 1..Len(st) : Ch(st, i) = "\n"
    THEN Slice(st, 1, CHOOSE i \in 1..Len(st) :
                         /\ Ch(st, i) = "\n"
                         /\ \A j \in 1..(i - 1) : Ch(st, j) # "\n")
    ELSE st

EndsWith_CRLF(s, suffix) == Len(s) >= 2 /\ Slice(s, Len(s) - 1, Len(s)) = "\r\n"

\* str.endswith
EndsWith(s, suffix) ==
    Len(s) >= Len(suffix) /\ Slice(s, Len(s) - Len(suffix) + 1, Len(s)) = suffix

\* the loop of lines 300-307 from the text content on the stream st: the
\* text returned and the bytes left.  An empty line is the end of the
\* stream; a read that raises leaves the loop in the same way.
RECURSIVE ReadUntil(_, _)
ReadUntil(content, st) ==
    LET line == Readline(st)
        c    == content \o Decode(line)
        rest == Slice(st, Len(line) + 1, Len(st))
    IN  IF line = "" THEN [content |-> content, rest |-> st]
        ELSE IF EndsWith(c, Delim) THEN [content |-> c, rest |-> rest]
        ELSE ReadUntil(c, rest)

MaxBlocks == 2             \* blocks on one stream

\* blocks as the PBX writes them, the delimiter included
BlockInputs ==
    {"A: 1\r\n\r\n", "A: 1\r\nB: 2\r\n\r\n", "\r\n\r\n", "N: J#\r\n\r\n",
     "A: 1\r\n#\r\n\r\n"}

\* what the PBX wrote of the next block when the stream closed
TailInputs == {"", "A: 1\r\n", "A: "}

StreamInputs ==
    [blocks : SeqsUpTo(BlockInputs, MaxBlocks), tail : TailInputs]

\* the bytes of the blocks, one after the other
RECURSIVE Concat(_)
Concat(bs) == IF bs = <<>> THEN "" ELSE Head(bs) \o Concat(Tail(bs))

FrameInit ==
    /\ SessionInit
    /\ answers = AnyAnswers
    /\ CorrIdle /\ SortIdle /\ OrigIdle
    /\ sent \in StreamInputs
    /\ stream = Concat(sent.blocks) \o sent.tail
    /\ got = <<>>

\* one call of _read_until_delimiter
ReadBlock ==
    /\ Len(got) <= Len(sent.blocks)
    /\ got' = Append(got, ReadUntil("", stream).content)
    /\ stream' = ReadUntil("", stream).rest
    /\ UNCHANGED <<sent, session, correlator, sorter, originator>>

NextStream ==
    /\ Len(got) > Len(sent.blocks)
    /\ sent' \in StreamInputs
    /\ stream' = Concat(sent'.blocks) \o sent'.tail
    /\ got' = <<>>
    /\ UNCHANGED <<session, correlator, sorter, originator>>

FrameNext == ReadBlock \/ NextStream

FrameSpec == FrameInit /\ [][FrameNext]_vars

----------------------------------------------------------------------------
(* perform_spy_action, lines 246-290, run on its own on its arguments      *)

SupervisorInputs == {"104", "105", "2001"}

TargetInputs == {"PJSIP/101", "PJSIP/102", "SIP/7001", "Local/101@from-queue"}

\* the modes of the docstring, one that is none of them, and the empty text
ModeInputs == {"spy", "whisper", "barge", "listen", ""}

\* the blocks a PBX that accepted the Login answers to the Originate
ReplyInputs ==
    {"Response: Success\r\nMessage: Originate successfully queued\r\n\r\n",
     "Response: Error\r\nMessage: Originate failed\r\n\r\n"}

OrigInputs ==
    [supervisor_ext : SupervisorInputs, target_interface : TargetInputs,
     mode : ModeInputs]

OrigInit ==
    /\ SessionInit
    /\ answers = AnyAnswers
    /\ CorrIdle /\ SortIdle /\ FrameIdle
    /\ spy_args \in OrigInputs
    /\ action = ""
    /\ spy_resp = ""
    /\ result = NoResult

\* the command is built and written, one block is read, the value returned
Originate ==
    /\ action = ""
    /\ action' = OriginateAction(spy_args.supervisor_ext,
                                 spy_args.target_interface, spy_args.mode)
    /\ spy_resp' \in ReplyInputs
    /\ result' = SpyValue(spy_resp', spy_args.mode, spy_args.target_interface)
    /\ UNCHANGED <<spy_args, session, correlator, sorter, framer>>

NextCall ==
    /\ action # ""
    /\ spy_args' \in OrigInputs
    /\ action' = ""
    /\ spy_resp' = ""
    /\ result' = NoResult
    /\ UNCHANGED <<session, correlator, sorter, framer>>

OrigNext == Originate \/ NextCall

OrigSpec == OrigInit /\ [][OrigNext]_vars

----------------------------------------------------------------------------
(* The session against a PBX and a database whose answers are fixed        *)

MemberBob ==
    [Event |-> "QueueMember", Queue |-> "support", Interface |-> "PJSIP/102",
     Name |-> "Bob", Status |-> "2", Paused |-> "0", Penalty |-> "1",
     CallsTaken |-> "3"]

MemberAlice ==
    [Event |-> "QueueMember", Queue |-> "support", Interface |-> "PJSIP/101",
     Name |-> "Alice", Status |-> "1", Paused |-> "1", Penalty |-> "0"]

ParamsSupport ==
    [Event |-> "QueueParams", Queue |-> "support", Strategy |-> "ringall",
     Calls |-> "1", Completed |-> "4", Abandoned |-> "0", ServiceLevelPerf |-> "0"]

CallOnBob ==
    [Event |-> "Status", Channel |-> "PJSIP/102-00001", Application |-> "Dial",
     ConnectedLineNum |-> "201", ConnectedLineName |-> "Zed", CallerIDNum |-> "102"]

SpyOnBob ==
    [Event |-> "Status", Channel |-> "PJSIP/104-00002", Application |-> "ChanSpy",
     Data |-> "PJSIP/102,qw", ConnectedLineNum |-> "104"]

Scripts ==
    [free : {FALSE}, rows : {<<>>, DbRows},
     status : {<<>>, <<CallOnBob, SpyOnBob>>},
     queue : {<<WillFollow, ParamsSupport, MemberBob>>,
              <<ParamsSupport, MemberBob, MemberAlice>>}]

IdemInit ==
    /\ SessionInit
    /\ answers \in Scripts
    /\ CorrIdle /\ SortIdle /\ FrameIdle /\ OrigIdle

IdemSpec == IdemInit /\ [][Next]_vars

----------------------------------------------------------------------------
(* Properties *)

\* caller p is between taking the lock and releasing it
InSection(p) == pc[p] \notin {"idle", "wait"}

ReadPCs == {"pingR", "banner", "loginR", "statusR", "qsR", "origR"}

\* the record op describes the operation that holds the lock now
CurOp == lock # None /\ pc[lock] # "ensure"

BodyCmds == {"Status", "QueueStatus", "Originate"}

\* C1: at most one call is inside its connect / write / read section, the
\* call inside is the owner of the lock, and while a call waits for the
\* reply to a command the last command written to the socket is its own.
C1_OneCallInSection ==
    /\ \A p \in Procs : InSection(p) => lock = p
    /\ \A p \in Procs :
         pc[p] \in ReadPCs \ {"banner"} => lastWrite.by = p

C1_Witness ==
    \E p, q \in Procs : pc[p] = "statusR" /\ pc[q] = "wait" /\ calls >= 2

\* C2: whenever no operation holds the lock, reader and writer are both
\* present or both cleared.
C2_BothOrNeither ==
    lock = None => ((reader = None) <=> (writer = None))

\* C3: an operation whose probe succeeded has opened no socket and written
\* no Login, and reader and writer are the objects it started with; a Login
\* is written only by an operation that found no writer or a failing probe,
\* so operations whose probes all succeed leave the single first Login.
C3_ProbeSuccessReuses ==
    /\ (CurOp /\ op.probe = "ok") =>
          /\ op.opened = 0 /\ op.logins = 0
          /\ writer = op.startW /\ reader = op.startW
    /\ logins <= fresh

C3_Witness ==
    /\ CurOp /\ op.probe = "ok" /\ op.cmdSock # None
    /\ calls >= 2 /\ logins = 1 /\ fresh = 1

\* C4: an operation whose probe failed never opens a second socket nor
\* writes a second Login, and once it has written its command it has opened
\* exactly one socket and written exactly one Login, on that socket, and the
\* command went to that new socket, not to the one it started with.
C4_FailedProbeReconnectsOnce ==
    op.probe = "fail" =>
        /\ op.opened <= 1 /\ op.logins <= op.opened
        /\ op.cmdSock # None =>
              /\ op.opened = 1 /\ op.logins = 1
              /\ op.loginSock = op.cmdSock
              /\ op.cmdSock # op.startW
              /\ op.cmdSock = socks

C4_Witness ==
    /\ op.probe = "fail" /\ op.cmdSock # None
    /\ op.startW # None /\ lastWrite.cmd \in {"Status", "Originate"}

C6_AtMostOneOpenSocket ==
    /\ Cardinality(open) <= 1
    /\ open \subseteq {writer}

\* C7: every call that was started returns to its caller.
C7_EveryCallReturns ==
    \A p \in Procs : (pc[p] # "idle") ~> (pc[p] = "idle")

\* C8: a get_queue_status that returns a non-empty list has read both the
\* StatusComplete and the QueueStatusComplete terminator.
C8_NoPartialResult ==
    (prev.how = "gqs_ok" /\ ret[prev.by].val # <<>>) => prev.complete

\* C9: Status, QueueStatus and Originate are written only on a connection
\* whose Login the PBX has acknowledged.
C9_NoCommandBeforeLoginAck ==
    lastWrite.cmd \in BodyCmds => lastWrite.auth

\* the table of the specification, by status code 0..9
LabelTable == <<"offline", "online", "busy", "busy", "offline", "offline",
                "online", "busy", "busy", "offline">>

\* C10: the label of a member is "paused" when Paused is 1 and otherwise the
\* table entry of its status code, whatever its interface, name and penalty.
C10_StatusLabelTable ==
    member # NoMember =>
        member.status = IF Get(event, "Paused", "0") = "1" THEN "paused"
                        ELSE LabelTable[IntOf(Get(event, "Status", "0")) + 1]

C10_Witness ==
    /\ member # NoMember
    /\ Get(event, "Paused", "") = "0" /\ Get(event, "Status", "") = "6"
    /\ member.status = "online"

----------------------------------------------------------------------------
(* The member list *)

\* a list of members is non-decreasing in (penalty, name)
NonDecreasing(ms) ==
    \A i \in 1..Len(ms) : \A j \in (i + 1)..Len(ms) :
        \/ ms[i].penalty < ms[j].penalty
        \/ ms[i].penalty = ms[j].penalty /\ ~StrLess(ms[j].name, ms[i].name)

\* two lists hold the same members, each as often
SameMembers(a, b) ==
    /\ Len(a) = Len(b)
    /\ \A i \in 1..Len(a) :
         Cardinality({j \in 1..Len(a) : a[j] = a[i]})
             = Cardinality({j \in 1..Len(b) : b[j] = a[i]})

\* the events evs in the order pi
Permuted(evs, pi) == [i \in 1..Len(evs) |-> evs[pi[i]]]

\* C11: the members returned for a queue are non-decreasing in
\* (penalty, name), and the events read in any other order give the same
\* members, again non-decreasing in (penalty, name).
C11_MembersSorted ==
    listing # NoListing =>
        /\ NonDecreasing(listing)
        /\ Len(listing) = Len(polled)
        /\ \A pi \in Permutations(1..Len(polled)) :
             /\ NonDecreasing(Listing(Permuted(polled, pi)))
             /\ SameMembers(Listing(Permuted(polled, pi)), listing)

C11_Witness ==
    /\ listing # NoListing /\ Len(listing) = 3
    /\ polled[1].Name = "bob" /\ polled[1].Penalty = "0"
    /\ polled[2].Name = "Alice" /\ polled[2].Penalty = "1"
    /\ polled[3].Name = "Al" /\ polled[3].Penalty = "0"
    /\ listing[1].name = "Al" /\ listing[2].name = "bob" /\ listing[3].name = "Alice"

----------------------------------------------------------------------------
(* The correlator *)

\* the Status events of the run that name a channel of the member's
\* interface, by position
OnInterface(i) ==
    /\ member.interface # ""
    /\ Get(status_events[i], "Event", "") = "Status"
    /\ Contains(ToLower(Get(status_events[i], "Channel", "")),
                ToLower(member.interface))

IsCall(i) == OnInterface(i) /\ Get(status_events[i], "Application", "") # "ChanSpy"

\* the Status events of monitor channels whose data names the member's interface
IsSpy(i) ==
    /\ member.interface # ""
    /\ Get(status_events[i], "Event", "") = "Status"
    /\ Get(status_events[i], "Application", "") = "ChanSpy"
    /\ Contains(Get(status_events[i], "Data", ""), member.interface)

Whisper(d) == Contains(d, "w") \/ Contains(d, "W")
Barge(d) == Contains(d, "b") \/ Contains(d, "B")

\* C12: the mode of a monitored member comes from the data of a monitor
\* channel on its interface: Whisper with a whisper and a barge flag, Barge
\* with a barge flag and no whisper flag, Listen with neither.
C12_MonitorModePrecedence ==
    (member # NoMember /\ member.spyStatus # PyNone) =>
        \E i \in 1..Len(status_events) :
            LET d == Get(status_events[i], "Data", "")
            IN  /\ IsSpy(i)
                /\ (Whisper(d) /\ Barge(d)) => member.spyStatus.mode = "Whisper"
                /\ (Barge(d) /\ ~Whisper(d)) => member.spyStatus.mode = "Barge"
                /\ (~Barge(d) /\ ~Whisper(d)) => member.spyStatus.mode = "Listen"

\* a number that can be shown
Usable(n) == n # "" /\ n # "<unknown>"

\* C13: for the one call channel of a member, the party shown is the
\* CallerIDNum when the ConnectedLineNum is absent, unknown or the member's
\* own extension, the recorded channel number when the CallerIDNum is the
\* member's extension too, and it is never null or empty when the event
\* carried a number.
C13_ConnectedPartyFallback ==
    member # NoMember =>
        \A i \in 1..Len(status_events) :
            (IsCall(i) /\ \A j \in 1..Len(status_events) : IsCall(j) => j = i) =>
                LET cl  == Get(status_events[i], "ConnectedLineNum", "")
                    cid == Get(status_events[i], "CallerIDNum", "")
                    ext == member.number
                    party == member.connectedParty
                IN  /\ (Usable(cl) \/ Usable(cid)) =>
                           (party # PyNone /\ party.num # "")
                    /\ (~Usable(cl) \/ cl = ext) /\ Usable(cid) /\ cid # ext =>
                           (party # PyNone /\ party.num = cid)
                    /\ (~Usable(cl) \/ cl = ext) /\ cid = ext =>
                           (party # PyNone /\ party.num = ext)

\* C17: a member has a connected party exactly when some Status event of
\* the poll names a channel of its interface that does not run ChanSpy.
C17_PartyIffCallChannel ==
    member # NoMember =>
        (member.connectedParty # PyNone <=> \E i \in 1..Len(status_events) : IsCall(i))

\* C18: a member whose interface is in the data of a ChanSpy channel has a
\* monitor status, with or without a number on the channel; the observer is
\* the channel's number when usable, else the digits after a slash in the
\* channel name, else "Supervisor".
C18_MonitorStatus ==
    member # NoMember =>
        \A i \in 1..Len(status_events) :
            (IsSpy(i) /\ \A j \in 1..Len(status_events) : IsSpy(j) => j = i) =>
                LET num  == Or(Get(status_events[i], "ConnectedLineNum", ""),
                               Get(status_events[i], "CallerIDNum", ""))
                    chan == ToLower(Get(status_events[i], "Channel", ""))
                IN  /\ member.spyStatus # PyNone
                    /\ member.spyStatus.spyer =
                          IF Usable(num) THEN num
                          ELSE IF SlashDigits(chan) # "" THEN SlashDigits(chan)
                          ELSE "Supervisor"

\* r is the first run of digits of s, "" when s has no digit
IsFirstRun(s, r) ==
    IF \A k \in 1..Len(s) : ~IsDigit(Ch(s, k)) THEN r = ""
    ELSE \E i \in 1..Len(s) : \E j \in i..Len(s) :
            /\ \A k \in 1..(i - 1) : ~IsDigit(Ch(s, k))
            /\ \A k \in i..j : IsDigit(Ch(s, k))
            /\ j = Len(s) \/ ~IsDigit(Ch(s, j + 1))
            /\ r = SubSeq(s, i, j)

\* n is the entry of the name table for the non-empty key k: the name of
\* the last row with an interface and a name whose key keys[i] is k, ""
\* when there is none
IsEntry(keys, k, n) ==
    LET hits == {i \in 1..Len(rows) :
                    /\ k # ""
                    /\ rows[i].interface # "" /\ rows[i].membername # ""
                    /\ keys[i] = k}
    IN  IF hits = {} THEN n = ""
        ELSE \E i \in hits : (\A j \in hits : j <= i) /\ n = rows[i].membername

\* the keys of the rows: the interface, and its first run of digits
Interfaces == [i \in 1..Len(rows) |-> rows[i].interface]
Extensions == [i \in 1..Len(rows) |-> FirstDigits(rows[i].interface)]

\* the first text of the sequence that is not empty, "" when all are
RECURSIVE FirstNonEmpty(_)
FirstNonEmpty(ts) ==
    IF ts = <<>> THEN ""
    ELSE IF Head(ts) # "" THEN Head(ts)
    ELSE FirstNonEmpty(Tail(ts))

\* C19: the extension is the first run of digits of the interface, or of
\* the AMI name when the interface has none; the display name is the first
\* non-empty of the table entry for the interface, the table entry for the
\* extension, the AMI name and the extension.
C19_ExtensionAndName ==
    member # NoMember =>
        LET interface == Or(Get(event, "Interface", ""), Get(event, "Location", ""))
            ami == Or(Get(event, "Name", ""), Get(event, "MemberName", ""))
        IN  \E ext \in {FirstDigits(interface), FirstDigits(ami)} :
            \E byInterface \in {""} \cup {rows[i].membername : i \in 1..Len(rows)} :
            \E byExt \in {""} \cup {rows[i].membername : i \in 1..Len(rows)} :
                /\ IF \E k \in 1..Len(interface) : IsDigit(Ch(interface, k))
                   THEN IsFirstRun(interface, ext)
                   ELSE IsFirstRun(ami, ext)
                /\ IsEntry(Interfaces, interface, byInterface)
                /\ IsEntry(Extensions, ext, byExt)
                /\ member.interface = interface
                /\ member.number = (IF ext # "" THEN ext ELSE "???")
                /\ member.name = FirstNonEmpty(<<byInterface, byExt, ami, ext>>)

C19_Witness ==
    /\ member # NoMember
    /\ Get(event, "Interface", "") = "PJSIP/102" /\ Get(event, "Name", "") = "Bob"
    /\ Len(rows) = 2
    /\ rows[1].interface = "SIP/102" /\ rows[1].membername = "Bobby"
    /\ rows[2].interface = "PJSIP/102" /\ rows[2].membername = ""
    /\ member.number = "102" /\ member.name = "Bobby"

----------------------------------------------------------------------------
(* Framing *)

\* the text t holds the delimiter at its end and nowhere before
EndsOnce(t) ==
    /\ Len(t) >= Len(Delim)
    /\ Slice(t, Len(t) - Len(Delim) + 1, Len(t)) = Delim
    /\ \A i \in 1..(Len(t) - Len(Delim)) : Slice(t, i, i + Len(Delim) - 1) # Delim

\* C20 as stated: the calls return the blocks of the stream in order, one
\* block each, and the call after the last block returns what was written
\* before the stream closed.
C20_BlocksFramed ==
    \A i \in 1..Len(got) :
        got[i] = IF i <= Len(sent.blocks) THEN Decode(sent.blocks[i])
                 ELSE Decode(sent.tail)

\* C20: on a stream whose blocks, once the undecodable bytes are dropped,
\* hold the delimiter at their end only, the calls return the decoded blocks
\* in order, one block each, and the call after the last block returns what
\* was written before the stream closed.
C20_TextBlocksFramed ==
    (\A i \in 1..Len(sent.blocks) : EndsOnce(Decode(sent.blocks[i]))) =>
        \A i \in 1..Len(got) :
            got[i] = IF i <= Len(sent.blocks) THEN Decode(sent.blocks[i])
                     ELSE Decode(sent.tail)

C20_Witness ==
    /\ Len(got) = 3
    /\ sent.blocks = <<"A: 1\r\nB: 2\r\n\r\n", "N: J#\r\n\r\n">>
    /\ sent.tail = "A: "
    /\ got = <<"A: 1\r\nB: 2\r\n\r\n", "N: J\r\n\r\n", "A: ">>
    /\ stream = ""

----------------------------------------------------------------------------
(* The session, continued *)

\* the record op describes the operation that finished last
LastOp == ~CurOp

\* C14: when a poll that ended with both terminators follows a poll that
\* ended with both terminators, against the same answers, the two return
\* equal values.
C14_SameAnswersSameResult ==
    [][\A p \in Procs :
          (/\ pc[p] = "qsR" /\ pc'[p] = "idle"
           /\ prev'.how = "gqs_ok" /\ prev'.complete
           /\ prev.how = "gqs_ok" /\ prev.complete)
          => ret'[p] = ret[prev.by]]_vars

C14_Witness ==
    /\ \A p \in Procs : pc[p] = "idle" /\ ret[p].kind = "list"
    /\ calls = 2 /\ fresh = 1
    /\ op.probe = "ok" /\ op.qsDone /\ prev.how = "gqs_ok" /\ prev.complete
    /\ ret[1] = ret[2]
    /\ Len(ret[1].val) = 1 /\ Len(ret[1].val[1].members) = 1
    /\ ret[1].val[1].members[1].connectedParty # PyNone
    /\ ret[1].val[1].members[1].spyStatus # PyNone

\* C15: a finished perform_spy_action read at most one block after the
\* Originate; it returned status success exactly when it read a block with
\* a success or queued marker, and else status error with the response
\* text, or the exception text, in the message.
C15_SpyResult ==
    (LastOp /\ prev.how \in {"spy_ok", "spy_declined", "spy_failed"}) =>
        LET r == ret[prev.by]
            marked == Contains(op.resp, "Success") \/ Contains(op.resp, "Queued")
        IN  /\ r.kind = "spy"
            /\ op.reads <= 1
            /\ r.status \in {"success", "error"}
            /\ r.status = "success" <=> (op.reads = 1 /\ marked)
            /\ (op.reads = 1 /\ ~marked) => Contains(r.message, Strip(op.resp))
            /\ op.reads = 0 => (r.status = "error" /\ prev.how = "spy_failed")

C15_Witness ==
    /\ LastOp /\ prev.how = "spy_declined" /\ op.reads = 1
    /\ Contains(op.resp, "Error")
    /\ ret[prev.by].status = "error"
    /\ ret[prev.by].message = "AMI error: Response: Error\r\nMessage: Originate failed"
    /\ \E q \in Procs : ret[q].kind = "spy" /\ ret[q].status = "success"

\* C16: a poll that met a block with a non-numeric value in a numeric field
\* still returned through the end of the event loop, and the connection it
\* used is still the session's.
C16_MalformedBlockNotFatal ==
    op.malformed => (prev.how = "gqs_ok" /\ writer # None /\ writer = op.cmdSock)

\* the orders in which one poll writes its commands
PollOrders ==
    {<<"Ping", "Status", "QueueStatus">>,
     <<"Login", "Status", "QueueStatus">>,
     <<"Ping", "Login", "Status", "QueueStatus">>}

IsPrefix(s, t) == Len(s) <= Len(t) /\ SubSeq(t, 1, Len(s)) = s

\* a step that writes a command
Writes == op'.cmds # op.cmds /\ op'.cmds # <<>>

\* C21: a poll writes its commands in the order probe or login, Status,
\* QueueStatus, and every command of any operation is written when the
\* response to the command written before it on that connection has been
\* read to its end; so the probe of an operation that starts on a kept
\* connection finds no block of an earlier operation in the stream.
C21_CommandsAfterResponses ==
    [][Writes =>
         /\ unread = "none"
         /\ kind[lock] = "gqs" => \E t \in PollOrders : IsPrefix(op'.cmds, t)]_vars

C21_Witness ==
    /\ CurOp /\ kind[lock] = "gqs" /\ pc[lock] = "qsR"
    /\ prev.how = "gqs_ok" /\ prev.complete
    /\ op.startW # None /\ op.probe = "ok" /\ op.opened = 0
    /\ op.cmds = <<"Ping", "Status", "QueueStatus">>
    /\ op.statusDone /\ unread = "QueueStatus" /\ rxn > 0

\* the operation that follows a declined Originate, past its probe
AfterDecline == CurOp /\ prev.how = "spy_declined" /\ op.probe = "ok"

\* C22 as stated: after a perform_spy_action that the PBX declined, reader
\* and writer are the connected objects they were before the call, and the
\* next operation whose probe succeeds sends no Login.
C22_DeclineLeavesSession ==
    /\ (LastOp /\ prev.how = "spy_declined") =>
          (writer # None /\ writer = op.startW /\ reader = op.startR)
    /\ AfterDecline => op.logins = 0

\* C22, amended: after a perform_spy_action that the PBX declined, reader
\* and writer are the connection the Originate was written on, not closed
\* by the session; they are the objects of before the call when the call
\* opened no connection; the next operation whose probe succeeds opens no
\* connection and sends no Login.
C22_DeclineKeepsConnection ==
    /\ (LastOp /\ prev.how = "spy_declined") =>
          /\ writer # None /\ writer \in open
          /\ writer = op.cmdSock /\ reader = op.cmdSock
          /\ op.opened = 0 => (writer = op.startW /\ reader = op.startR)
    /\ AfterDecline =>
          (op.logins = 0 /\ op.opened = 0 /\ writer = op.startW)

C22_Witness ==
    /\ AfterDecline /\ kind[lock] = "gqs" /\ pc[lock] = "statusR"
    /\ ret[prev.by].kind = "spy" /\ ret[prev.by].status = "error"
    /\ op.logins = 0 /\ op.opened = 0 /\ writer = op.startW /\ reader = writer
    /\ op.cmds = <<"Ping", "Status">>

\* the line of the command text that starts with the given field name
HasLine(text, line) == Contains(text, "\r\n" \o line \o "\r\n")

\* C23: the Originate text written for (supervisor_ext, target_interface,
\* mode) is the text written for the same two and any other mode; it names
\* the application ChanSpy, the data '<target_interface>,dq', a caller id
\* that embeds the target, and Async true; the mode shows in the message of
\* a success value only, and an error value is the same for every mode.
C23_OriginateIgnoresMode ==
    action # "" =>
      LET ext == spy_args.supervisor_ext
          target == spy_args.target_interface
      IN  /\ \A m \in ModeInputs : OriginateAction(ext, target, m) = action
          /\ SubSeq(action, 1, 19) = "Action: Originate\r\n"
          /\ HasLine(action, "Channel: PJSIP/" \o ext)
          /\ HasLine(action, "Application: ChanSpy")
          /\ HasLine(action, "Data: " \o target \o ",dq")
          /\ HasLine(action, "CallerID: \"Spy: " \o target \o "\" <" \o ext \o ">")
          /\ Contains(action, "\r\nAsync: true\r\n\r\n")
          /\ result.status \in {"success", "error"}
          /\ result.status = "success" =>
                result.message = "Spy " \o spy_args.mode \o " initiated for " \o target
          /\ result.status = "error" =>
                \A m \in ModeInputs : SpyValue(spy_resp, m, target) = result

C23_Witness ==
    /\ spy_args = [supervisor_ext |-> "105", target_interface |-> "PJSIP/102",
                   mode |-> "barge"]
    /\ Contains(action, "Channel: PJSIP/105\r\n")
    /\ Contains(action, "Data: PJSIP/102,dq\r\n")
    /\ result = [status |-> "success",
                 message |-> "Spy barge initiated for PJSIP/102"]

====
